---- MODULE Spec2Model ----
(***************************************************************************)
(* Verification model of evankart/tempo_dataviz_processing.                *)
(*                                                                         *)
(* The repository is a set of scripts, each a program of its own. Each     *)
(* specification below runs one of them; the variables of the others keep  *)
(* their idle values. The variables every script has (blobs, pc, ...) are  *)
(* declared once.                                                          *)
(*                                                                         *)
(*   Spec         cog_to_mapbox_tileset.py : the publish orchestrator      *)
(*                (existence probe, post_with_backoff, upload / create /   *)
(*                publish, the loop over the listed blobs, re-runs).       *)
(*   SpecTest     mapbox_test.py : main(), the single-tileset workflow     *)
(*                (download and convert, upload_source_files,              *)
(*                create_tileset, publish_tileset, check_job_status).      *)
(*   SpecFinal    FINAL_tempo_to_cog.py : the loop that downloads each     *)
(*                cube, converts it, stores it and publishes it.           *)
(*   SpecRun      cog_to_mapbox_tileset.py : one invocation, over a bucket *)
(*                in which two objects carry the same date.                *)
(*   SpecLong     cog_to_mapbox_tileset.py : one invocation, over a        *)
(*                listing longer than the limit of 31 files, with weak     *)
(*                fairness of the script's steps.                          *)
(*   SpecTestFair SpecTest with weak fairness of the steps of main().      *)
(*   SpecRaster   convert_tempo_to_8bit_cog of FINAL_tempo_to_cog.py and   *)
(*                of mapbox_test.py : the gdal commands, followed at one   *)
(*                pixel of the cube (each command works pixel by pixel),   *)
(*                and the decoding of the output by accuracy_test.py and   *)
(*                highest_NO2_days.py.                                     *)
(***************************************************************************)
EXTENDS Integers, Sequences, FiniteSets, TLC

(***************************************************************************)
(* Bounds of the model.                                                    *)
(***************************************************************************)
MaxBlobs == 2
MaxRuns == 2

(***************************************************************************)
(* Program constants.                                                      *)
(***************************************************************************)
\* A loop of one pass more: range(6).
AttemptsPlusOne == 5 + 1

\* cog_to_mapbox_tileset.py:26   for attempt in range(5)
Attempts == 5
\* A limit of one file more: if file_count > 32.
FileLimitPlusOne == 31 + 1

\* cog_to_mapbox_tileset.py:160  if file_count > 31
FileLimit == 31

None == "None"
Dates == {"2024-03-01", "2024-03-02"}

\* A listed blob, reduced to what the loop reads of its name: the date the
\* regular expression of extract_date finds in it (None when it finds none),
\* and whether the name ends with '.tif'.
Bucket ==
    << [date |-> "2024-03-01", tif |-> TRUE],
       [date |-> None,         tif |-> FALSE],
       [date |-> "2024-03-02", tif |-> TRUE] >>

Range(s) == { s[i] : i \in 1..Len(s) }

BlobNames == Range(Bucket)

\* The objects of Bucket at the positions of I, in the order of Bucket.
RECURSIVE Listed(_, _)
Listed(I, n) ==
    IF n = 0 THEN << >>
    ELSE IF n \in I THEN Append(Listed(I, n - 1), Bucket[n])
    ELSE Listed(I, n - 1)

\* bucket.list_blobs(prefix): the objects under the prefix, each once, in the
\* order of their names.
Listings ==
    { Listed(I, Len(Bucket)) :
        I \in { J \in SUBSET (1..Len(Bucket)) : Cardinality(J) <= MaxBlobs } }

RECURSIVE Pow2(_)
Pow2(n) == IF n = 0 THEN 1 ELSE 2 * Pow2(n - 1)

(***************************************************************************)
(* Responses of the remote tileset service.                                *)
(***************************************************************************)
Resp(s, t) == [status |-> s, text |-> t]
NoResp == Resp(0, "")
R200 == Resp(200, "")
R201 == Resp(201, "")
R400exists == Resp(400, "already exists")
R400 == Resp(400, "bad request")
R404 == Resp(404, "")
R429 == Resp(429, "")
R500 == Resp(500, "")
R409exists == Resp(409, "already exists")

Kinds == {"upload", "create", "publish"}

VARIABLES
    blobs,       \* the listing the run iterates over
    idx,         \* index of the blob the for loop is at
    pc,          \* position of the script
    file_count, processed,
    issued,      \* kinds of remote writes made for the current blob
    ret,         \* per kind: the value the step function returned
    outcome      \* per blob of the listing: how this run left it

\* cog_to_mapbox_tileset.py
VARIABLES
    run,         \* number of the invocation of the script
    skipped,
    attempt,     \* post_with_backoff: loop variable
    r,           \* post_with_backoff: last response
    sent,        \* requests issued by the current post_with_backoff call
    sleeps,      \* time.sleep durations of the current post_with_backoff call
    probe,       \* response of the existence GET, until the next request
    existed,     \* whether the tileset existed remotely when it was probed
    uploaded,    \* the response the upload's post_with_backoff call returned
    prev,        \* outcome of the previous run
    tilesets,    \* remote: ids of the tilesets that exist
    sources,     \* remote: ids of the tileset sources that hold an upload
    requests     \* GET and POST requests made for the current blob

\* mapbox_test.py
VARIABLES
    configured,  \* whether the three settings main() validates are set
    tif_files,   \* the paths download_and_convert_nc_files collected
    disk,        \* the .tif paths that exist in /tmp
    up_i,        \* upload_source_files: index of the loop
    job_id,      \* what publish_tileset returned
    poll,        \* check_job_status: the last response
    polls,       \* check_job_status: requests made
    waited,      \* check_job_status: seconds slept
    posts        \* per kind: POST requests made by the workflow

\* FINAL_tempo_to_cog.py
VARIABLES
    tmp          \* the temporary files that exist: << index of the blob, file >>

\* convert_tempo_to_8bit_cog
VARIABLES
    script,      \* whose convert_tempo_to_8bit_cog runs: "FINAL" or "mapbox_test"
    series,      \* the values of the pixel in the time-slots of the cube
    allbands,    \* the pixel in temp_all_bands: one value per extracted band
    modified,    \* the pixel in temp_modified
    where,       \* where the pixel lies: in the window, the cutline's extent, the polygon
    clipped,     \* the pixel in temp_clipped
    encoded,     \* the pixel in output_file
    decoded      \* the pixel in tif_molecules (accuracy_test.py, highest_NO2_days.py)

commonVars == << blobs, idx, pc, file_count, processed, issued, ret, outcome >>

cogVars == << run, skipped, attempt, r, sent, sleeps, probe, existed,
              uploaded, prev, tilesets, sources, requests >>

finalVars == << tmp >>

rasterVars == << script, series, allbands, modified, where, clipped, encoded,
                 decoded >>

testVars == << configured, tif_files, disk, up_i, job_id, poll, polls,
               waited, posts >>

vars == << commonVars, cogVars, testVars, finalVars, rasterVars >>

\* What an action of cog_to_mapbox_tileset.py leaves alone.
notCog == << testVars, finalVars, rasterVars >>

\* What an action of mapbox_test.py leaves alone.
notTest == << cogVars, finalVars, rasterVars, issued, outcome, file_count >>

\* What an action of FINAL_tempo_to_cog.py leaves alone.
notFinal == << cogVars, testVars, rasterVars >>

\* What a command of convert_tempo_to_8bit_cog leaves alone.
notRaster == << cogVars, testVars, finalVars, blobs, idx, file_count,
                processed, issued, ret, outcome >>

(***************************************************************************)
(* Pure functions of cog_to_mapbox_tileset.py.                             *)
(***************************************************************************)
\* extract_date: the first yyyy-mm-dd in the name, else None.
extract_date(blob) == blob.date

\* An id without the date of the blob: the search for the date finds nothing.
mapbox_id_dateless(blob) == None \o "-no2"

\* mapbox_id = f"{date}-no2"
mapbox_id(blob) == extract_date(blob) \o "-no2"

Ids == { mapbox_id(b) : b \in BlobNames }

\* A probe that takes every answer but a 404 for an existing tileset.
tileset_exists_unless_404(response) == response.status # 404

\* A probe that takes a rate-limited answer for an existing tileset.
tileset_exists_or_429(response) == response.status \in {200, 429}

\* A probe with the two answers swapped: True for 404, False for 200.
tileset_exists_swapped(response) == response.status = 404

\* tileset_exists: True for 200, False for 404, a warning and False otherwise.
tileset_exists(response) ==
    IF response.status = 200 THEN TRUE
    ELSE IF response.status = 404 THEN FALSE
    ELSE FALSE

\* "already exists" in response.text
MentionsAlreadyExists(text) == text = "already exists"

\* upload_to_mapbox_source_from_gcs: what it returns for the response of
\* post_with_backoff.
upload_to_mapbox_source_from_gcs(response) == response.status = 200

\* A creation without the branch for a tileset that already exists.
create_mapbox_tileset_strict(response) == response.status \in {200, 201}

\* A creation that takes every 400 for "already exists".
create_mapbox_tileset_any_400(response) == response.status \in {200, 201, 400}

\* create_mapbox_tileset: what it returns for the response of post_with_backoff.
create_mapbox_tileset(response) ==
    IF response.status \in {200, 201} THEN TRUE
    ELSE IF response.status = 400 /\ MentionsAlreadyExists(response.text) THEN TRUE
    ELSE FALSE

\* publish_mapbox_tileset: what it returns for the response of post_with_backoff.
publish_mapbox_tileset(response) == response.status = 200

\* post_with_backoff: sleep_seconds = 2 ** attempt
sleep_seconds(att) == Pow2(att)

(***************************************************************************)
(* The remote service: what it may answer, and what a request does to it.  *)
(* An answer of 200 or 404 to the existence GET is truthful; any request   *)
(* may also be rate limited (429) or fail (4xx, 5xx).                      *)
(***************************************************************************)
GetResponses(id) ==
    { IF id \in tilesets THEN R200 ELSE R404, R429, R500 }

PostResponses(kind, id) ==
    CASE kind = "upload"  -> { R200, R429, R500 }
      [] kind = "create"  -> IF id \in tilesets
                             THEN { R400exists, R409exists, R429, R400 }
                             ELSE { R200, R201, R429, R400 }
      [] kind = "publish" -> IF id \in tilesets
                             THEN { R200, R201, R429, R400 }
                             ELSE { R404, R429 }

Accepted(response) == response.status \in {200, 201}

NoneYet == [k \in Kinds |-> "none"]
NoRequests == [get |-> 0, post |-> 0]
Untouched == [how |-> "none", created |-> FALSE]
Bool2Str(b) == IF b THEN "true" ELSE "false"

(***************************************************************************)
(* Spec: the script of cog_to_mapbox_tileset.py.                           *)
(***************************************************************************)
IdleCog ==
    /\ run = 0
    /\ skipped = 0
    /\ attempt = 0
    /\ r = NoResp
    /\ sent = 0
    /\ sleeps = << >>
    /\ probe = NoResp
    /\ existed = FALSE
    /\ uploaded = NoResp
    /\ prev = << >>
    /\ tilesets = {}
    /\ sources = {}
    /\ requests = NoRequests

IdleTest ==
    /\ configured = FALSE
    /\ tif_files = << >>
    /\ disk = {}
    /\ up_i = 0
    /\ job_id = None
    /\ poll = NoResp
    /\ polls = 0
    /\ waited = 0
    /\ posts = [k \in Kinds |-> 0]

IdleFinal == tmp = {}

IdleRaster ==
    /\ script = None
    /\ series = << >>
    /\ allbands = << >>
    /\ modified = << >>
    /\ where = None
    /\ clipped = << >>
    /\ encoded = << >>
    /\ decoded = << >>

\* The start of a run of the script over one of the listings, the service
\* holding the tilesets of existing.
InitWith(listings, existing) ==
    /\ IdleTest
    /\ IdleFinal
    /\ IdleRaster
    /\ blobs \in listings
    /\ tilesets = existing
    /\ sources = {}
    /\ idx = 1
    /\ pc = "loop"
    /\ run = 1
    /\ file_count = 0
    /\ processed = 0
    /\ skipped = 0
    /\ attempt = 0
    /\ r = NoResp
    /\ sent = 0
    /\ sleeps = << >>
    /\ probe = NoResp
    /\ existed = FALSE
    /\ uploaded = NoResp
    /\ ret = NoneYet
    /\ issued = {}
    /\ outcome = [i \in 1..Len(blobs) |-> Untouched]
    /\ prev = [i \in 1..Len(blobs) |-> Untouched]
    /\ requests = NoRequests

InitOver(listings) == InitWith(listings, {})

Init == InitOver(Listings)

cur == blobs[idx]
curId == mapbox_id(cur)

\* Leaving the current blob: the for loop takes the next one. The outcome
\* records how the blob was left and whether its create step returned True.
NextBlob(how, created) ==
    /\ outcome' = [outcome EXCEPT ![idx] = [how |-> how, created |-> created]]
    /\ idx' = idx + 1
    /\ pc' = "loop"
    /\ attempt' = 0
    /\ r' = NoResp
    /\ sent' = 0
    /\ sleeps' = << >>
    /\ uploaded' = NoResp
    /\ ret' = NoneYet
    /\ issued' = {}
    /\ requests' = NoRequests

\* Lines 154-164: the head of the for loop, up to the existence check.
ListNext ==
    /\ UNCHANGED notCog
    /\ pc = "loop"
    /\ IF idx > Len(blobs)
       THEN /\ pc' = "end"
            /\ UNCHANGED << idx, file_count, outcome, attempt, r, sent, sleeps,
                            uploaded, ret, issued, requests >>
       ELSE IF ~cur.tif
       THEN /\ NextBlob("ignored", FALSE)
            /\ UNCHANGED file_count
       ELSE /\ file_count' = file_count + 1
            /\ IF file_count + 1 > FileLimit
               THEN pc' = "end"
               ELSE pc' = "tileset_exists"
            /\ UNCHANGED << idx, outcome, attempt, r, sent, sleeps, uploaded,
                            ret, issued, requests >>
    /\ probe' = NoResp
    /\ existed' = FALSE
    /\ UNCHANGED << blobs, run, processed, skipped, prev, tilesets, sources >>

\* Lines 166-177 with tileset_exists (37-47): the GET answers.
TilesetExists ==
    /\ UNCHANGED notCog
    /\ pc = "tileset_exists"
    /\ \E response \in GetResponses(curId) :
         /\ probe' = response
         /\ existed' = (curId \in tilesets)
         /\ IF tileset_exists(response)
            THEN /\ skipped' = skipped + 1
                 /\ NextBlob("skipped", FALSE)
                 /\ UNCHANGED processed
            ELSE /\ processed' = processed + 1
                 /\ pc' = "upload"
                 /\ requests' = [requests EXCEPT !.get = @ + 1]
                 /\ UNCHANGED << skipped, idx, outcome, attempt, r, sent,
                                 sleeps, uploaded, ret, issued >>
    /\ UNCHANGED << blobs, run, file_count, prev, tilesets, sources >>

\* Line 39: requests.get raises (timeout, connection error). The call is
\* outside the try of the loop body, so the script ends with the error.
TilesetExistsRaises ==
    /\ UNCHANGED notCog
    /\ pc = "tileset_exists"
    /\ pc' = "aborted"
    /\ requests' = [requests EXCEPT !.get = @ + 1]
    /\ UNCHANGED << blobs, idx, run, file_count, processed, skipped, attempt,
                    r, sent, sleeps, probe, existed, uploaded, ret, issued,
                    outcome, prev, tilesets, sources >>

\* Lines 189-190: the except clause of the loop body.
Except ==
    /\ NextBlob("error", ret["create"] = "true")
    /\ probe' = NoResp
    /\ UNCHANGED << blobs, run, file_count, processed, skipped, existed, prev,
                    tilesets, sources >>

\* Line 63: blob.download_as_bytes() raises before any request is made.
BlobDownloadRaises ==
    /\ UNCHANGED notCog
    /\ pc = "upload"
    /\ sent = 0
    /\ Except

RemoteEffect(kind, response) ==
    /\ sources' = IF kind = "upload" /\ Accepted(response)
                  THEN sources \cup {curId} ELSE sources
    /\ tilesets' = IF kind = "create" /\ Accepted(response)
                   THEN tilesets \cup {curId} ELSE tilesets

\* Lines 25-34: one pass of the loop of post_with_backoff: the request, and
\* either the return of a response that is not 429, or the sleep; after the
\* last pass the loop ends and the last response is returned.
PostWithBackoff ==
    /\ UNCHANGED notCog
    /\ pc \in Kinds
    /\ attempt < Attempts
    /\ \E response \in PostResponses(pc, curId) :
         /\ r' = response
         /\ sent' = sent + 1
         /\ requests' = [requests EXCEPT !.post = @ + 1]
         /\ issued' = issued \cup {pc}
         /\ RemoteEffect(pc, response)
         /\ IF response.status # 429
            THEN /\ pc' = pc \o "_ret"
                 /\ UNCHANGED << attempt, sleeps >>
            ELSE /\ sleeps' = Append(sleeps, sleep_seconds(attempt))
                 /\ attempt' = attempt + 1
                 /\ pc' = IF attempt + 1 < Attempts THEN pc ELSE pc \o "_ret"
    /\ probe' = NoResp
    /\ UNCHANGED << blobs, idx, run, file_count, processed, skipped, existed,
                    uploaded, ret, outcome, prev >>

\* Line 27: requests.post raises; the except clause of the loop body takes it.
PostRaises ==
    /\ UNCHANGED notCog
    /\ pc \in Kinds
    /\ attempt < Attempts
    /\ Except

\* The step function evaluates the response and returns; the loop body goes on
\* to the next step whatever was returned (lines 180-187).
StepReturns(kind, value, nextpc) ==
    /\ pc = kind \o "_ret"
    /\ IF nextpc = "loop"
       THEN NextBlob("completed", ret["create"] = "true")
       ELSE /\ pc' = nextpc
            /\ ret' = [ret EXCEPT ![kind] = Bool2Str(value)]
            /\ uploaded' = IF kind = "upload" THEN r ELSE uploaded
            /\ attempt' = 0
            /\ sent' = 0
            /\ sleeps' = << >>
            /\ UNCHANGED << idx, outcome, r, issued, requests >>
    /\ UNCHANGED << blobs, run, file_count, processed, skipped, probe,
                    existed, prev, tilesets, sources >>

\* Lines 68-73, then line 182.
UploadReturns ==
    /\ StepReturns("upload", upload_to_mapbox_source_from_gcs(r), "create")
    /\ UNCHANGED notCog

\* Lines 111-119, then line 184.
CreateReturns ==
    /\ StepReturns("create", create_mapbox_tileset(r), "publish")
    /\ UNCHANGED notCog

\* Lines 133-138, then line 187: "completed successfully".
PublishReturns ==
    /\ StepReturns("publish", publish_mapbox_tileset(r), "loop")
    /\ UNCHANGED notCog

\* The script is invoked again over the same listing; the remote state stays.
Rerun ==
    /\ UNCHANGED notCog
    /\ pc \in {"end", "aborted"}
    /\ run < MaxRuns
    /\ run' = run + 1
    /\ prev' = outcome
    /\ outcome' = [i \in 1..Len(blobs) |-> Untouched]
    /\ idx' = 1
    /\ pc' = "loop"
    /\ file_count' = 0
    /\ processed' = 0
    /\ skipped' = 0
    /\ probe' = NoResp
    /\ existed' = FALSE
    /\ requests' = NoRequests
    /\ UNCHANGED << blobs, attempt, r, sent, sleeps, uploaded, ret, issued,
                    tilesets, sources >>

Next ==
    \/ ListNext
    \/ TilesetExists
    \/ TilesetExistsRaises
    \/ BlobDownloadRaises
    \/ PostWithBackoff
    \/ PostRaises
    \/ UploadReturns
    \/ CreateReturns
    \/ PublishReturns
    \/ Rerun

Spec == Init /\ [][Next]_vars

(***************************************************************************)
(* SpecRun: one invocation of cog_to_mapbox_tileset.py, over a bucket in   *)
(* which two objects carry the same date in their names.                   *)
(***************************************************************************)
DatedBucket ==
    << [name |-> "cogs/2024-03-01_NO2.tif",    date |-> "2024-03-01", tif |-> TRUE],
       [name |-> "cogs/2024-03-01_NO2_v2.tif", date |-> "2024-03-01", tif |-> TRUE],
       [name |-> "cogs/2024-03-02_NO2.tif",    date |-> "2024-03-02", tif |-> TRUE] >>

RECURSIVE DatedListed(_, _)
DatedListed(I, n) ==
    IF n = 0 THEN << >>
    ELSE IF n \in I THEN Append(DatedListed(I, n - 1), DatedBucket[n])
    ELSE DatedListed(I, n - 1)

DatedListings ==
    { DatedListed(I, Len(DatedBucket)) :
        I \in { J \in SUBSET (1..Len(DatedBucket)) : Cardinality(J) <= MaxBlobs } }

RunInit == InitOver(DatedListings)

RunNext ==
    \/ ListNext
    \/ TilesetExists
    \/ TilesetExistsRaises
    \/ BlobDownloadRaises
    \/ PostWithBackoff
    \/ PostRaises
    \/ UploadReturns
    \/ CreateReturns
    \/ PublishReturns

SpecRun == RunInit /\ [][RunNext]_vars

(***************************************************************************)
(* SpecLong: one invocation of cog_to_mapbox_tileset.py over a listing     *)
(* longer than the limit of 31 files. The first objects of the listing     *)
(* (Settled of them) were published by earlier runs: their tilesets exist  *)
(* and the service answers their existence GET; the objects after them are *)
(* new, and the service answers them as it pleases. The script runs one    *)
(* statement after the other and every request ends with a response or an  *)
(* exception, hence the weak fairness.                                     *)
(***************************************************************************)
Settled == FileLimit - MaxBlobs

TwoDigits(i) == IF i < 10 THEN "0" \o ToString(i) ELSE ToString(i)

SettledBlob(i) == [date |-> "2024-02-" \o TwoDigits(i), tif |-> TRUE]

NewBlob(i) == [date |-> "2024-03-" \o TwoDigits(i), tif |-> TRUE]

LongListings ==
    { [i \in 1..(Settled + n) |->
          IF i <= Settled THEN SettledBlob(i) ELSE NewBlob(i - Settled)] :
        n \in 0..(MaxBlobs + 1) }

LongInit ==
    InitWith(LongListings, { mapbox_id(SettledBlob(i)) : i \in 1..Settled })

\* The existence GET of a settled object answers 200.
SettledAnswer == idx <= Settled => probe' = R200

LongNext ==
    \/ ListNext
    \/ TilesetExists /\ SettledAnswer
    \/ TilesetExistsRaises
    \/ BlobDownloadRaises
    \/ PostWithBackoff
    \/ PostRaises
    \/ UploadReturns
    \/ CreateReturns
    \/ PublishReturns

SpecLong == LongInit /\ [][LongNext]_vars /\ WF_vars(LongNext)

(***************************************************************************)
(* Properties of the publish orchestrator (Spec).                          *)
(***************************************************************************)
RetPcs == {"upload_ret", "create_ret", "publish_ret"}

\* The blob the last existence probe was about: the probe either skipped it
\* (the loop is back at its head, one blob further) or let it through.
probed == IF pc = "loop" THEN idx - 1 ELSE idx

\* C1 as claimed: for an artifact whose tileset exists remotely when it is
\* probed, no upload, create or publish request is issued and the artifact is
\* left as skipped.
C1_ExistingTilesetNeverPosted ==
    existed =>
        /\ issued = {}
        /\ pc \notin Kinds
        /\ pc = "loop" => outcome[idx - 1].how = "skipped"

\* C1 amended: for an artifact whose existence probe answers 200, no upload,
\* create or publish request is issued and the artifact is left as skipped.
C1_Probe200Skips ==
    probe.status = 200 =>
        /\ issued = {}
        /\ pc = "loop"
        /\ outcome[idx - 1].how = "skipped"
        /\ skipped >= 1

C1_Witness ==
    /\ probe.status = 200
    /\ existed
    /\ pc = "loop"
    /\ outcome[idx - 1].how = "skipped"

\* C2 as claimed: whatever the first run's remote calls answered, a second
\* run issues no upload and no create request for an artifact the first run
\* handled.
C2_SecondRunNeverPosts ==
    (run >= 2 /\ issued \cap {"upload", "create"} # {}) =>
        prev[idx].how = "none"

\* C2 amended: when the create step of an artifact returned success in the
\* previous run and the existence probe of this run is answered with 200 or
\* 404, the answer is 200 and the artifact is skipped: no upload and no
\* create request is issued for it in this run.
C2_CreatedThenSkipped ==
    (run >= 2 /\ probe.status \in {200, 404} /\ prev[probed].created) =>
        /\ probe.status = 200
        /\ pc = "loop"
        /\ issued = {}
        /\ outcome[probed].how = "skipped"

C2_Witness ==
    /\ run = 2
    /\ probe.status = 200
    /\ prev[probed].created
    /\ prev[probed].how = "completed"
    /\ outcome[probed].how = "skipped"

C4_SleepsStartAtTwo ==
    (pc \in RetPcs /\ r.status # 429) =>
        sleeps = [i \in 1..(sent - 1) |-> Pow2(i)]

\* C5 as claimed: once the upload of an artifact ended in a response other
\* than 200 and 429, no create and no publish request is issued for it.
C5_FailedUploadAborts ==
    (uploaded.status \notin {0, 200, 429}) =>
        issued \cap {"create", "publish"} = {}

\* C6: create_mapbox_tileset returns True exactly for a 200, a 201, and a 400
\* whose text says the tileset already exists. (When the publish step is
\* about to start, r still is the response the create step evaluated.)
C6_CreateIdempotent ==
    (pc = "publish" /\ sent = 0) =>
        (ret["create"] = "true" <=>
            \/ r.status = 200
            \/ r.status = 201
            \/ r.status = 400 /\ r.text = "already exists")

C6_Witness ==
    /\ pc = "publish"
    /\ sent = 0
    /\ r = R400exists
    /\ ret["create"] = "true"

\* C8 as claimed: whatever fails for one artifact, in its existence check,
\* upload, creation or publish, the run gets to every artifact of the listing.
C8_EveryArtifactAttempted ==
    (pc \in {"end", "aborted"} /\ Len(blobs) <= FileLimit) =>
        \A i \in 1..Len(blobs) : outcome[i].how # "none"

\* The blobs of the listing this run has handled before the current one.
HandledBefore ==
    { j \in 1..(idx - 1) : outcome[j].how \in {"completed", "error", "skipped"} }

\* C18 as claimed: a request issued for one artifact never targets the id
\* derived for another artifact handled in the run: the ids of two distinct
\* artifacts differ.
C18_IdsNeverCollide ==
    pc \in Kinds \cup RetPcs /\ issued # {} =>
        \A j \in HandledBefore : mapbox_id(blobs[j]) # curId

\* C18 amended: the ids derived for two artifacts whose names carry different
\* dates differ, and no request issued for one targets the id of the other.
C18_DifferentDatesNeverCollide ==
    pc \in Kinds \cup RetPcs /\ issued # {} =>
        \A j \in HandledBefore :
            extract_date(blobs[j]) # extract_date(cur)
                => mapbox_id(blobs[j]) # curId

C18_Witness ==
    /\ pc = "publish_ret"
    /\ issued = Kinds
    /\ idx = 2
    /\ outcome[1].how = "completed"
    /\ extract_date(blobs[1]) # extract_date(cur)

\* C19 as claimed: when the response to the publish request has the status
\* 200 or 201, publish_mapbox_tileset reports the trigger as successful.
C19_PublishAccepts200And201 ==
    pc = "publish_ret" /\ r.status \in {200, 201} => publish_mapbox_tileset(r)

\* C20 as claimed: the creation request of an artifact is issued only after
\* its upload reported success, and its publish request only after the
\* creation reported success.
C20_StepsOnlyAfterSuccess ==
    /\ "create" \in issued => ret["upload"] = "true"
    /\ "publish" \in issued => ret["create"] = "true"

\* An uploaded source without a tileset: what a run leaves that stopped
\* between the upload and the creation.
Orphan(id) == id \in sources /\ id \notin tilesets

\* C21: when the existence check is made for an artifact whose source is
\* uploaded and whose tileset does not exist, it answers absent, whatever the
\* remote responds: the artifact is not skipped and the loop goes on to
\* upload the source again. No artifact is skipped as an orphan.
C21_OrphanProbedAbsent ==
    /\ probe # NoResp /\ Orphan(mapbox_id(blobs[probed])) =>
          /\ ~tileset_exists(probe)
          /\ pc = "upload"
          /\ outcome[probed].how = "none"
    /\ \A i \in 1..Len(blobs) :
          outcome[i].how = "skipped" => ~Orphan(mapbox_id(blobs[i]))

C21_Witness ==
    /\ run = 2
    /\ pc = "upload"
    /\ sent = 0
    /\ probe = R404
    /\ Orphan(curId)
    /\ prev[idx].how = "error"

\* C23: whatever the service answers, a call of post_with_backoff issues at
\* most 5 requests, an artifact costs at most one existence GET and at most
\* 15 POSTs (three calls), a run handles at most 31 .tif artifacts, and the
\* run ends (normally, or with the exception of the existence GET).
C23_BoundedRemoteWork ==
    /\ [] /\ sent <= 5
          /\ requests.get <= 1
          /\ requests.post <= 15
          /\ processed + skipped <= 31
    /\ <>(pc \in {"end", "aborted"})

\* The 31st artifact of a run, the last one the run handles, after 429 was
\* the answer to every request of its three steps.
C23_Witness ==
    /\ pc = "publish_ret"
    /\ file_count = 31
    /\ processed + skipped = 31
    /\ requests = [get |-> 1, post |-> 15]
    /\ sent = 5

\* C24: the existence probe answers True for a 200 only: after a 404 and
\* after every other status (429, 5xx) the artifact is not skipped, it is
\* counted as processed and the loop goes on to the upload, also when the
\* tileset exists.
C24_OnlyProbe200Skips ==
    probe # NoResp =>
        /\ tileset_exists(probe) <=> probe.status = 200
        /\ probe.status # 200 =>
              /\ pc = "upload"
              /\ processed > 0
              /\ outcome[probed].how = "none"

C24_Witness ==
    /\ probe = R500
    /\ existed
    /\ pc = "upload"
    /\ processed = 1

\* C25 as claimed: an artifact is reported as completed successfully only
\* when its upload, its creation and its publish all returned True.
C25_CompletedOnlyIfAllSucceeded ==
    [][(idx <= Len(blobs) /\ pc = "publish_ret"
            /\ outcome'[idx].how = "completed")
        => /\ ret["upload"] = "true"
           /\ ret["create"] = "true"
           /\ publish_mapbox_tileset(r)]_vars

\* Line 192: the total the last line of the run prints.
TotalFiles == file_count - 1

\* The .tif artifacts the loop has examined in this run.
Examined ==
    Cardinality({ i \in 1..Len(blobs) :
                    outcome[i].how \in {"skipped", "completed", "error"} })

\* C26 as claimed: at the end of a run the reported total of files,
\* file_count - 1, is the number of .tif artifacts the run examined, which is
\* processed + skipped.
C26_ReportedTotalIsExamined ==
    pc = "end" => /\ TotalFiles = Examined
                  /\ Examined = processed + skipped

(***************************************************************************)
(* SpecTest: main() of mapbox_test.py.                                     *)
(***************************************************************************)
MaxPolls == 3

\* mapbox_test.py:28   MAX_FILES = 5
MAX_FILES == 5

\* check_job_status: time.sleep(10)
PollInterval == 10

\* The objects under GCS_BLOB_PREFIX, in the order of their names: the date in
\* the name, and whether FILE_PATTERN matches the name.
NcBucket ==
    << [date |-> "2024-01-01", match |-> TRUE],
       [date |-> "2024-01-04", match |-> FALSE],
       [date |-> "2024-01-02", match |-> TRUE] >>

RECURSIVE NcListed(_, _)
NcListed(I, n) ==
    IF n = 0 THEN << >>
    ELSE IF n \in I THEN Append(NcListed(I, n - 1), NcBucket[n])
    ELSE NcListed(I, n - 1)

NcListings ==
    { NcListed(I, Len(NcBucket)) :
        I \in { J \in SUBSET (1..Len(NcBucket)) : Cardinality(J) <= MaxBlobs } }

\* tif_path = f"/tmp/tempo_{date}.tif"
tif_path(blob) == "/tmp/tempo_" \o blob.date \o ".tif"

\* Answers to the POSTs of the workflow, which are made without backoff.
TestPostResponses == { R200, R201, R429, R500 }

\* Answers to the publish POST: the status and the jobId of the body (None
\* when the body has none).
PublishResp(s, j) == [status |-> s, jobId |-> j]
PublishResponses ==
    { PublishResp(200, "job-1"), PublishResp(201, "job-1"),
      PublishResp(200, None), PublishResp(429, None), PublishResp(500, None) }

\* Answers to the job status GET: the status and the stage of the body (None
\* when the body has none).
JobResp(s, st) == [status |-> s, stage |-> st]
NoPoll == JobResp(0, None)
Stages == {"queued", "processing", "success", "failed"}
PollResponses ==
    { JobResp(200, st) : st \in Stages \cup {None} }
        \cup { JobResp(404, None), JobResp(429, None) }

\* publish_tileset (228-246): the job id for a 200 or a 201, else None.
publish_tileset(response) ==
    IF response.status \in {200, 201} THEN response.jobId ELSE None

\* job.get('stage', 'unknown')
StageOf(response) ==
    IF response.stage = None THEN "unknown" ELSE response.stage

\* A loop that takes 'failed' for one more stage to wait through.
check_job_status_until_success(response) ==
    IF response.status = 200
    THEN IF StageOf(response) = "success" THEN "break" ELSE "sleep"
    ELSE "break"

\* A loop that waits through the stages it knows only.
check_job_status_known_stages(response) ==
    IF response.status = 200
    THEN IF StageOf(response) \in {"queued", "processing"} THEN "sleep"
         ELSE "break"
    ELSE "break"

\* check_job_status (256-278): what one pass of the loop does with the
\* response: leave the loop, or sleep and poll again.
check_job_status(response) ==
    IF response.status = 200
    THEN IF StageOf(response) = "success" THEN "break"
         ELSE IF StageOf(response) = "failed" THEN "break"
         ELSE "sleep"
    ELSE "break"

TestInit ==
    /\ IdleCog
    /\ IdleFinal
    /\ IdleRaster
    /\ ret = NoneYet
    /\ blobs \in NcListings
    /\ idx = 1
    /\ pc = "main"
    /\ file_count = 0
    /\ processed = 0
    /\ issued = {}
    /\ outcome = << >>
    /\ configured \in BOOLEAN
    /\ tif_files = << >>
    /\ disk = {}
    /\ up_i = 0
    /\ job_id = None
    /\ poll = NoPoll
    /\ polls = 0
    /\ waited = 0
    /\ posts = [k \in Kinds |-> 0]

\* Lines 280-299: main() validates the settings.
Main ==
    /\ pc = "main"
    /\ pc' = IF configured THEN "convert" ELSE "done"
    /\ UNCHANGED << blobs, idx, processed, ret, testVars, notTest >>

\* A path of main() that returns without its cleanup.
Cleanup_forgotten == UNCHANGED disk

\* "Cleanup temp files" of main(): lines 313-315, 323-325, 335-338.
Cleanup == disk' = disk \ Range(tif_files)

\* Lines 114-142: one blob of the loop of download_and_convert_nc_files, with
\* the conversion done or failed; after the last blob, lines 144 and 302-308.
DownloadAndConvert ==
    /\ pc = "convert"
    /\ IF idx > Len(blobs) \/ (cur.match /\ processed >= MAX_FILES)
       THEN /\ pc' = IF tif_files = << >> THEN "done" ELSE "upload"
            /\ up_i' = 1
            /\ UNCHANGED << idx, processed, tif_files, disk >>
       ELSE IF ~cur.match
       THEN /\ idx' = idx + 1
            /\ UNCHANGED << pc, processed, tif_files, disk, up_i >>
       ELSE /\ processed' = processed + 1
            /\ idx' = idx + 1
            /\ \E converted \in BOOLEAN :
                 IF converted
                 THEN /\ tif_files' = Append(tif_files, tif_path(cur))
                      /\ disk' = disk \cup {tif_path(cur)}
                 ELSE UNCHANGED << tif_files, disk >>
            /\ UNCHANGED << pc, up_i >>
    /\ UNCHANGED << blobs, configured, job_id, poll, polls, waited, posts,
                    ret, notTest >>

\* Line 127: blob.download_to_filename raises; nothing catches it.
DownloadRaises ==
    /\ pc = "convert"
    /\ idx <= Len(blobs)
    /\ cur.match
    /\ processed < MAX_FILES
    /\ processed' = processed + 1
    /\ pc' = "aborted"
    /\ UNCHANGED << blobs, idx, ret, testVars, notTest >>

\* Lines 154-174: one file of the loop of upload_source_files, which returns
\* False at the first upload that fails and True after the last file; then
\* lines 310-318 of main().
UploadSourceFiles ==
    /\ pc = "upload"
    /\ IF up_i > Len(tif_files)
       THEN /\ pc' = "create"
            /\ ret' = [ret EXCEPT !["upload"] = "true"]
            /\ UNCHANGED << up_i, disk, posts >>
       ELSE IF tif_files[up_i] \notin disk
       THEN /\ up_i' = up_i + 1
            /\ UNCHANGED << pc, disk, posts, ret >>
       ELSE \E response \in TestPostResponses :
              /\ posts' = [posts EXCEPT !["upload"] = @ + 1]
              /\ IF response.status \in {200, 201}
                 THEN /\ up_i' = up_i + 1
                      /\ UNCHANGED << pc, disk, ret >>
                 ELSE /\ ret' = [ret EXCEPT !["upload"] = "false"]
                      /\ Cleanup
                      /\ pc' = "done"
                      /\ UNCHANGED up_i
    /\ UNCHANGED << blobs, idx, processed, configured, tif_files, job_id,
                    poll, polls, waited, notTest >>

\* Lines 206-226: create_tileset; then lines 320-326 of main().
CreateTileset ==
    /\ pc = "create"
    /\ \E response \in TestPostResponses :
         /\ posts' = [posts EXCEPT !["create"] = @ + 1]
         /\ ret' = [ret EXCEPT !["create"] = Bool2Str(response.status \in {200, 201})]
         /\ IF response.status \in {200, 201}
            THEN /\ pc' = "publish"
                 /\ UNCHANGED disk
            ELSE /\ Cleanup
                 /\ pc' = "done"
    /\ UNCHANGED << blobs, idx, processed, configured, tif_files, up_i,
                    job_id, poll, polls, waited, notTest >>

\* Lines 228-246: publish_tileset; then lines 328-331 of main(), and the
\* cleanup of lines 333-338 when there is no job to poll.
PublishTileset ==
    /\ pc = "publish"
    /\ \E response \in PublishResponses :
         /\ posts' = [posts EXCEPT !["publish"] = @ + 1]
         /\ job_id' = publish_tileset(response)
         /\ IF publish_tileset(response) # None
            THEN /\ pc' = "poll"
                 /\ UNCHANGED disk
            ELSE /\ Cleanup
                 /\ pc' = "done"
    /\ UNCHANGED << blobs, idx, processed, configured, tif_files, up_i, poll,
                    polls, waited, ret, notTest >>

\* Lines 256-278: one pass of the loop of check_job_status; when the loop is
\* left, the cleanup of lines 333-338. The model stops the remote from
\* answering with a stage that is not final more than MaxPolls times.
CheckJobStatus ==
    /\ pc = "poll"
    /\ \E response \in PollResponses :
         /\ polls < MaxPolls \/ check_job_status(response) = "break"
         /\ poll' = response
         /\ polls' = polls + 1
         /\ IF check_job_status(response) = "break"
            THEN /\ Cleanup
                 /\ pc' = "done"
                 /\ UNCHANGED waited
            ELSE /\ waited' = waited + PollInterval
                 /\ UNCHANGED << pc, disk >>
    /\ UNCHANGED << blobs, idx, processed, configured, tif_files, up_i,
                    job_id, posts, ret, notTest >>

\* Lines 164, 218, 235, 257: the request raises; nothing in main() catches it.
RequestRaises ==
    /\ \/ pc \in {"create", "publish", "poll"}
       \/ pc = "upload" /\ up_i <= Len(tif_files) /\ tif_files[up_i] \in disk
    /\ pc' = "aborted"
    /\ UNCHANGED << blobs, idx, processed, ret, testVars, notTest >>

TestNext ==
    \/ Main
    \/ DownloadAndConvert
    \/ DownloadRaises
    \/ UploadSourceFiles
    \/ CreateTileset
    \/ PublishTileset
    \/ CheckJobStatus
    \/ RequestRaises

SpecTest == TestInit /\ [][TestNext]_vars

\* main() runs one statement after the other, and every request ends with a
\* response or an exception.
SpecTestFair == SpecTest /\ WF_vars(TestNext)

(***************************************************************************)
(* Properties of check_job_status (SpecTest).                              *)
(***************************************************************************)
FinalStages == {"success", "failed"}

\* C7 as claimed: the polling loop is left only after a poll that reports the
\* stage success or failed.
C7_StopsOnlyOnFinalStage ==
    (pc = "done" /\ polls > 0) =>
        (poll.status = 200 /\ poll.stage \in FinalStages)

\* C7 amended: the polling loop is left after a poll that reports the stage
\* success or failed, and also after a poll whose status is not 200; after a
\* poll with status 200 and any other stage (or none) it sleeps 10 seconds
\* and polls again.
C7_StopsOnFinalStageOrError ==
    /\ (pc = "done" /\ polls > 0) =>
          \/ poll.status = 200 /\ poll.stage \in FinalStages
          \/ poll.status # 200
    /\ (pc = "poll" /\ polls > 0) =>
          /\ poll.status = 200
          /\ poll.stage \notin FinalStages
          /\ waited = 10 * polls

C7_Witness ==
    /\ pc = "done"
    /\ polls = 3
    /\ waited = 20
    /\ poll = JobResp(200, "failed")

\* C22: the loop of check_job_status has no cap of its own: after a poll
\* answered 200 with a stage that is not final, however many polls came
\* before, it waits 10 seconds and stays in the loop; with a job that reports
\* a final stage in the end, the loop is left.
C22_PollsUntilFinalStage ==
    /\ [][(/\ pc = "poll"
           /\ polls' = polls + 1
           /\ poll'.status = 200
           /\ StageOf(poll') \notin FinalStages)
              => /\ pc' = "poll"
                 /\ waited' = waited + 10]_vars
    /\ (pc = "poll") ~> (pc \in {"done", "aborted"})

\* Three polls answered 200 with a stage that is not final, the last without
\* a stage: the loop has waited three times and polls again.
C22_Witness ==
    /\ pc = "poll"
    /\ polls = 3
    /\ waited = 30
    /\ poll = JobResp(200, None)

\* The files of tif_files that exist.
Generated == Range(tif_files) \cap disk

\* C28: in main() of mapbox_test.py a step that reports failure ends the
\* workflow: after upload_source_files returned False (at its first failed
\* upload) no further upload and no create request is made; after
\* create_tileset returned False no publish request is made; after
\* publish_tileset returned no job id no status poll is made; and on each of
\* these paths the generated .tif files are deleted.
C28_FailedStepStopsLaterSteps ==
    /\ ret["upload"] = "false" =>
          /\ pc = "done"
          /\ posts["upload"] = up_i
          /\ posts["create"] = 0 /\ posts["publish"] = 0 /\ polls = 0
          /\ Generated = {}
    /\ ret["create"] = "false" =>
          /\ pc = "done"
          /\ posts["publish"] = 0 /\ polls = 0
          /\ Generated = {}
    /\ (posts["publish"] > 0 /\ job_id = None) =>
          /\ pc = "done"
          /\ polls = 0
          /\ Generated = {}

\* The first of two uploads failed: the second file was not uploaded.
C28_Witness ==
    /\ ret["upload"] = "false"
    /\ Len(tif_files) = 2
    /\ posts["upload"] = 1
    /\ pc = "done"

(***************************************************************************)
(* SpecFinal: the script of FINAL_tempo_to_cog.py.                         *)
(***************************************************************************)
\* FINAL_tempo_to_cog.py:192   if file_count <= 15
FinalFileLimit == 15

\* The objects under GCS_BLOB_PREFIX, in the order of their names: the date in
\* the name, and whether the name ends with '19.nc'.
CubeBucket ==
    << [date |-> "2024-03-19", ends19 |-> TRUE],
       [date |-> "2024-03-20", ends19 |-> FALSE],
       [date |-> "2024-04-19", ends19 |-> TRUE] >>

RECURSIVE CubesListed(_, _)
CubesListed(I, n) ==
    IF n = 0 THEN << >>
    ELSE IF n \in I THEN Append(CubesListed(I, n - 1), CubeBucket[n])
    ELSE CubesListed(I, n - 1)

CubeListings ==
    { CubesListed(I, Len(CubeBucket)) :
        I \in { J \in SUBSET (1..Len(CubeBucket)) : Cardinality(J) <= MaxBlobs } }

\* The files convert_tempo_to_8bit_cog writes before its step k, in the
\* order it writes them (lines 37-90).
ConvertFiles == << "boundary", "allbands", "modified", "clipped" >>
WrittenBefore(k) == { ConvertFiles[j] : j \in 1..k }

\* upload_to_mapbox_source (101-115)
upload_to_mapbox_source(response) == response.status = 200

\* create_mapbox_tileset of FINAL_tempo_to_cog.py (118-157)
final_create_mapbox_tileset(response) == response.status \in {200, 201}

\* publish_mapbox_tileset of FINAL_tempo_to_cog.py (161-176)
final_publish_mapbox_tileset(response) == response.status = 200

FinalInit ==
    /\ IdleCog
    /\ IdleTest
    /\ IdleRaster
    /\ blobs \in CubeListings
    /\ idx = 1
    /\ pc = "loop"
    /\ file_count = 0
    /\ processed = 0
    /\ issued = {}
    /\ ret = NoneYet
    /\ outcome = [i \in 1..Len(blobs) |-> [how |-> "none", issued |-> {}]]
    /\ tmp = {}

\* The next iteration of the for loop. The outcome records how the blob was
\* left and the remote writes made for it.
FinalNextBlob(how, wrote) ==
    /\ outcome' = [outcome EXCEPT ![idx] = [how |-> how, issued |-> wrote]]
    /\ idx' = idx + 1
    /\ pc' = "loop"
    /\ issued' = {}
    /\ ret' = NoneYet

\* Lines 227-229: finally unlinks the .nc and the .tif temporary files, after
\* the try body ended or after except printed the error (225-226).
FinalFinally(how, wrote) ==
    /\ FinalNextBlob(how, wrote)
    /\ tmp' = tmp \ { <<idx, "nc">>, <<idx, "tif">> }

\* Lines 190-198: the head of the loop.
FinalLoop ==
    /\ pc = "loop"
    /\ IF idx > Len(blobs)
       THEN /\ pc' = "end"
            /\ UNCHANGED << idx, file_count, processed, issued, ret, outcome >>
       ELSE /\ file_count' = file_count + 1
            /\ IF file_count + 1 <= FinalFileLimit /\ cur.ends19
               THEN /\ processed' = processed + 1
                    /\ pc' = "download"
                    /\ UNCHANGED << idx, issued, ret, outcome >>
               ELSE /\ FinalNextBlob("ignored", {})
                    /\ UNCHANGED processed
    /\ UNCHANGED << blobs, tmp, notFinal >>

\* Lines 200-202: the temporary .nc is created, the blob is downloaded into
\* it and the temporary .tif is created.
FinalDownload ==
    /\ pc = "download"
    /\ tmp' = tmp \cup { <<idx, "nc">>, <<idx, "tif">> }
    /\ pc' = "convert"
    /\ UNCHANGED << blobs, idx, file_count, processed, issued, ret, outcome,
                    notFinal >>

\* Line 201: blob.download_to_filename raises. The call is outside the try,
\* so the script ends with the error and the temporary .nc stays.
FinalDownloadRaises ==
    /\ pc = "download"
    /\ tmp' = tmp \cup { <<idx, "nc">> }
    /\ pc' = "aborted"
    /\ UNCHANGED << blobs, idx, file_count, processed, issued, ret, outcome,
                    notFinal >>

\* Line 205 with convert_tempo_to_8bit_cog (33-98): all four commands succeed
\* and the intermediate files are unlinked, or command number failing exits
\* with an error (check=True raises) and the files written so far stay.
FinalConvert ==
    /\ pc = "convert"
    /\ \E failing \in 0..4 :
         IF failing = 0
         THEN /\ pc' = "gcs"
              /\ UNCHANGED << tmp, idx, issued, ret, outcome >>
         ELSE /\ FinalNextBlob("convert_failed", issued)
              /\ tmp' = (tmp \ { <<idx, "nc">>, <<idx, "tif">> })
                            \cup { <<idx, f>> : f \in WrittenBefore(failing) }
    /\ UNCHANGED << blobs, file_count, processed, notFinal >>

\* Lines 208-212: the COG is stored in the bucket.
FinalStore ==
    /\ pc = "gcs"
    /\ issued' = issued \cup {"gcs"}
    /\ pc' = "upload"
    /\ UNCHANGED << blobs, idx, file_count, processed, ret, outcome, tmp,
                    notFinal >>

\* One of the three POSTs (lines 107, 144, 165), made without backoff, and
\* what its function returns; the loop body goes on whatever was returned
\* (lines 217-223).
FinalStep(kind, value, nextpc) ==
    /\ pc = kind
    /\ IF nextpc = "loop"
       THEN /\ FinalFinally("completed", issued \cup {kind})
       ELSE /\ pc' = nextpc
            /\ issued' = issued \cup {kind}
            /\ ret' = [ret EXCEPT ![kind] = Bool2Str(value)]
            /\ UNCHANGED << idx, outcome, tmp >>
    /\ UNCHANGED << blobs, file_count, processed, notFinal >>

FinalUpload ==
    \E response \in TestPostResponses :
        FinalStep("upload", upload_to_mapbox_source(response), "create")

FinalCreate ==
    \E response \in TestPostResponses :
        FinalStep("create", final_create_mapbox_tileset(response), "publish")

FinalPublish ==
    \E response \in TestPostResponses :
        FinalStep("publish", final_publish_mapbox_tileset(response), "loop")

\* Lines 211, 107, 144, 165: storing the COG or a POST raises; except and
\* finally take it.
FinalStepRaises ==
    /\ pc \in {"gcs", "upload", "create", "publish"}
    /\ FinalFinally("error", issued)
    /\ UNCHANGED << blobs, file_count, processed, notFinal >>

FinalNext ==
    \/ FinalLoop
    \/ FinalDownload
    \/ FinalDownloadRaises
    \/ FinalConvert
    \/ FinalStore
    \/ FinalUpload
    \/ FinalCreate
    \/ FinalPublish
    \/ FinalStepRaises

SpecFinal == FinalInit /\ [][FinalNext]_vars

(***************************************************************************)
(* Properties of the loop of FINAL_tempo_to_cog.py (SpecFinal).            *)
(***************************************************************************)
\* C9 as claimed: when the download or the conversion of one cube fails, the
\* run is not aborted, nothing is stored, uploaded or published for that
\* cube, and the run gets to every remaining blob of the listing.
C9_TransformErrorsIsolated ==
    /\ pc # "aborted"
    /\ \A i \in 1..Len(blobs) :
         outcome[i].how = "convert_failed" => outcome[i].issued = {}
    /\ pc = "end" => \A i \in 1..Len(blobs) : outcome[i].how # "none"

\* The cubes convert_tempo_to_8bit_cog was called for and has finished with,
\* by returning or by the error of one of its commands.
ConvertFinished ==
    { i \in 1..Len(blobs) :
        outcome[i].how \in {"convert_failed", "completed", "error"} }

\* C27 as claimed: after convert_tempo_to_8bit_cog finished for a cube, with
\* or without the failure of one of its four commands, none of its
\* intermediate files remains and the caller's temporary .nc and .tif are
\* removed.
C27_TemporaryFilesRemoved ==
    \A i \in ConvertFinished :
        \A f \in Range(ConvertFiles) \cup {"nc", "tif"} : << i, f >> \notin tmp

(***************************************************************************)
(* SpecRaster: convert_tempo_to_8bit_cog, at one pixel.                    *)
(***************************************************************************)
MaxSlots == 3

\* A value of the pixel in one time-slot: absent (NaN), or a measurement.
\* Physical values are counted in units of 1e14 / 254 molecules/cm^2, in
\* which the bounds of both scalings and every decoded code are whole numbers:
\* 1e16 is 25400 units, 5e17 is 1270000 units.
NaN == << >>
Val(v) == << v >>
\* What stands for the pixel in a raster that does not contain it.
NoPixel == << 0, 0 >>
Measurements == { -5000, 0, 5, 8, 12700, 50800 }
SlotValues == { NaN } \cup { Val(v) : v \in Measurements }

Cubes == UNION { [1..n -> SlotValues] : n \in 1..MaxSlots }

\* Where a pixel of the cube lies: in the window of LA_BOUNDS (-projwin), in
\* the extent of the boundary polygon (-crop_to_cutline), in the polygon
\* (-cutline). The polygon lies within its extent.
Places ==
    { p \in [window : BOOLEAN, bbox : BOOLEAN, polygon : BOOLEAN] :
        p.polygon => p.bbox }

Max(S) == CHOOSE x \in S : \A y \in S : y <= x

Present(bands) == { bands[i][1] : i \in { j \in 1..Len(bands) : bands[j] # NaN } }

\* Step 1, gdal_translate: the bands of the cube that go to temp_all_bands.
\* FINAL_tempo_to_cog.py passes '-b', '1' (line 50); mapbox_test.py has the
\* option commented out (line 51) and takes every band.
ExtractBands(scr, cube) ==
    IF scr = "FINAL" THEN << cube[1] >> ELSE cube

\* An extraction without the window: every pixel of the cube is kept.
projwin_whole_cube(place, bands) == bands

\* Step 1, -projwin: temp_all_bands holds the pixels of the window only; of
\* another pixel it holds no band.
projwin(place, bands) == IF place.window THEN bands ELSE << >>

\* Step 2, gdal_calc.py --calc numpy.nanmax(A, axis=0) --allBands A: the
\* maximum of the values that are not NaN; NaN when all are.
nanmax(bands) ==
    IF Present(bands) = {} THEN NaN ELSE Val(Max(Present(bands)))

\* --NoDataValue=0 (line 65): a pixel of temp_modified holds no data when it
\* is NaN or the nodata value.
NoDataValue == 0
IsNoData(pixel) == pixel = NaN \/ pixel = Val(NoDataValue)

\* Step 3, -dstnodata 0.
DstNoData == 0

\* A warp that crops to the polygon's extent without masking by the polygon.
crop_only(place, pixel) ==
    IF ~place.bbox THEN NoPixel
    ELSE IF pixel # NoPixel THEN pixel
    ELSE Val(DstNoData)

\* Step 3, gdalwarp -cutline -crop_to_cutline -dstnodata 0: the output has the
\* extent of the polygon; a pixel of it keeps the source's value when it lies
\* in the polygon and the source has it, and is set to the nodata value 0
\* otherwise.
cutline(place, pixel) ==
    IF ~place.bbox THEN NoPixel
    ELSE IF place.polygon /\ pixel # NoPixel THEN pixel
    ELSE Val(DstNoData)

\* Step 4, gdal_translate -ot Byte -scale src_min src_max dst_min dst_max
\* -a_nodata 0.
SrcMin == 0
SrcMax(scr) == IF scr = "FINAL" THEN 25400 ELSE 1270000
DstMin == 1
DstMax == 255
NoDataCode == 0

\* -scale computes a scale and an offset, and does not clip; -ot Byte rounds
\* the scaled value to the nearest whole number and saturates it at 0 and 255.
\* The value is floor(x + 1/2) for x = (v - SrcMin) * (DstMax - DstMin) /
\* (SrcMax - SrcMin) + DstMin, written over the denominator 2 * (SrcMax -
\* SrcMin).
ToByte(n) == IF n < 0 THEN 0 ELSE IF n > 255 THEN 255 ELSE n

scale(scr, v) ==
    ToByte((2 * (DstMax - DstMin) * (v - SrcMin)
              + (2 * DstMin + 1) * (SrcMax(scr) - SrcMin))
           \div (2 * (SrcMax(scr) - SrcMin)))

\* A conversion that scales the nodata value like any other value.
quantize_scaling_nodata(scr, pixel) ==
    IF pixel = NoPixel THEN NoPixel
    ELSE IF pixel = NaN THEN Val(0)
    ELSE Val(scale(scr, pixel[1]))

\* The pixel of output_file: a pixel that holds the source's nodata value 0
\* is not scaled and gets the nodata value of the output; a NaN becomes 0 in
\* a Byte.
quantize(scr, pixel) ==
    IF pixel = NoPixel THEN NoPixel
    ELSE IF pixel = Val(DstNoData) THEN Val(NoDataCode)
    ELSE IF pixel = NaN THEN Val(0)
    ELSE Val(scale(scr, pixel[1]))

\* accuracy_test.py 84-89, highest_NO2_days.py 174-175: the codes above 0 are
\* decoded as ((code - 1) / 254) * 5e17, which is (code - 1) * 5000 units.
decode(pixel) ==
    IF pixel = NoPixel \/ ~(pixel[1] > 0 /\ pixel[1] < 256) THEN NoPixel
    ELSE Val((pixel[1] - 1) * 5000)

RasterInit ==
    /\ IdleCog
    /\ IdleTest
    /\ IdleFinal
    /\ blobs = << >>
    /\ idx = 0
    /\ file_count = 0
    /\ processed = 0
    /\ issued = {}
    /\ ret = NoneYet
    /\ outcome = << >>
    /\ pc = "step1"
    /\ script \in {"FINAL", "mapbox_test"}
    /\ series \in Cubes
    /\ where \in Places
    /\ allbands = << >>
    /\ modified = NaN
    /\ clipped = NaN
    /\ encoded = NaN
    /\ decoded = NaN

\* Lines 46-55 (FINAL_tempo_to_cog.py), 47-56 (mapbox_test.py).
ExtractAllBands ==
    /\ pc = "step1"
    /\ allbands' = projwin(where, ExtractBands(script, series))
    /\ pc' = "step2"
    /\ UNCHANGED << script, series, where, modified, clipped, encoded,
                    decoded, notRaster >>

\* Lines 57-66 (FINAL_tempo_to_cog.py), 58-68 (mapbox_test.py).
CalcDailyMax ==
    /\ pc = "step2"
    /\ modified' = IF allbands = << >> THEN NoPixel ELSE nanmax(allbands)
    /\ pc' = "step3"
    /\ UNCHANGED << script, series, where, allbands, clipped, encoded,
                    decoded, notRaster >>

\* Lines 68-77 (FINAL_tempo_to_cog.py), 70-79 (mapbox_test.py).
ClipToBoundary ==
    /\ pc = "step3"
    /\ clipped' = cutline(where, modified)
    /\ pc' = "step4"
    /\ UNCHANGED << script, series, where, allbands, modified, encoded,
                    decoded, notRaster >>

\* Lines 79-90 (FINAL_tempo_to_cog.py), 81-93 (mapbox_test.py).
ConvertTo8Bit ==
    /\ pc = "step4"
    /\ encoded' = quantize(script, clipped)
    /\ pc' = "converted"
    /\ UNCHANGED << script, series, where, allbands, modified, clipped,
                    decoded, notRaster >>

\* accuracy_test.py, highest_NO2_days.py: the raster is read back.
DecodeTif ==
    /\ pc = "converted"
    /\ decoded' = decode(encoded)
    /\ pc' = "decoded"
    /\ UNCHANGED << script, series, where, allbands, modified, clipped,
                    encoded, notRaster >>

RasterNext ==
    \/ ExtractAllBands
    \/ CalcDailyMax
    \/ ClipToBoundary
    \/ ConvertTo8Bit
    \/ DecodeTif

SpecRaster == RasterInit /\ [][RasterNext]_vars

(***************************************************************************)
(* Properties of convert_tempo_to_8bit_cog (SpecRaster).                   *)
(***************************************************************************)
\* C10 as claimed: a pixel that is present in at least one time-slot of the
\* cube has, in the reduced raster, the maximum of its present values; a
\* pixel absent in all time-slots has no data there.
C10_ReducedIsMaxOfPresent ==
    pc = "step3" /\ modified # NoPixel =>
        IF Present(series) = {}
        THEN IsNoData(modified)
        ELSE modified = Val(Max(Present(series)))

Converted == pc \in {"converted", "decoded"}

\* The pixel is a valid measurement in the raster: it is there, and it is
\* neither NaN nor the nodata value.
IsValid(pixel) == pixel # NoPixel /\ ~IsNoData(pixel)

\* C11 as claimed: a valid value of the clipped raster below physical_min
\* encodes to code_min (1), and one above physical_max to code_max (255);
\* neither encodes to the nodata code.
C11_OutOfRangeClamped ==
    Converted /\ IsValid(clipped) =>
        /\ clipped[1] < SrcMin => encoded = Val(DstMin)
        /\ clipped[1] > SrcMax(script) => encoded = Val(DstMax)

\* C12 as claimed: a pixel of the window and of the polygon whose time-slots
\* (those the reduction is given) hold at least one measurement, the largest
\* of them within [physical_min, physical_max], physical_min = 0 included, has
\* a code within [code_min, code_max] in the output, never the nodata code 0.
C12_InRangeNeverNoDataCode ==
    (/\ Converted /\ where.window /\ where.polygon
     /\ Present(allbands) # {}
     /\ Max(Present(allbands)) >= SrcMin
     /\ Max(Present(allbands)) <= SrcMax(script))
    => /\ encoded # NoPixel
       /\ encoded[1] >= DstMin
       /\ encoded[1] <= DstMax
       /\ encoded[1] # NoDataCode

\* C13 as claimed: with the profile 0, 1e16, 1, 255 (FINAL_tempo_to_cog.py),
\* a pixel of the window and of the polygon whose reduced measurement v lies
\* within [0, 1e16] has the code round(v / 1e16 * 254 + 1) (128 for 5e15); a
\* measurement of 2e16 has the code 255 and a pixel without data the code 0.
\* (round(x) for x = v / 25400 * 254 + 1, v in units, is the whole number
\* nearest to x: floor(x + 1/2).)
C13_AffineQuantization ==
    LET AffineCode(v) == (2 * 254 * v + 3 * 25400) \div (2 * 25400)
    IN
    Converted /\ script = "FINAL" /\ where.window /\ where.polygon =>
        IF Present(allbands) = {} THEN encoded = Val(0)
        ELSE IF Max(Present(allbands)) \in 0..25400
             THEN encoded = Val(AffineCode(Max(Present(allbands))))
        ELSE Max(Present(allbands)) = 50800 => encoded = Val(255)

\* C14 as claimed: a code of the output within [code_min, code_max], decoded
\* by the repository's decoders and encoded again by the conversion that
\* produced it, gives the same code.
C14_RoundTrip ==
    pc = "decoded" /\ encoded # NoPixel /\ encoded[1] \in DstMin..DstMax =>
        quantize(script, decoded) = encoded

AfterClip == pc \in {"step4", "converted", "decoded"}

\* C15 as claimed: a pixel of the reduced raster outside the polygon is
\* nodata in the clipped raster; a pixel of the reduced raster in the polygon
\* has in the clipped raster the value it has in the reduced raster.
C15_ClipMasksOutside ==
    AfterClip /\ modified # NoPixel =>
        IF where.polygon THEN clipped = modified ELSE IsNoData(clipped)

\* C15 amended: a pixel of the reduced raster outside the polygon is nodata
\* in the clipped raster when it lies in the extent of the polygon, and is not
\* in the clipped raster when it lies outside that extent (-crop_to_cutline);
\* a pixel of the reduced raster in the polygon keeps its value.
C15_ClipMasksOrCrops ==
    AfterClip /\ modified # NoPixel =>
        IF where.polygon THEN clipped = modified
        ELSE IF where.bbox THEN clipped = Val(DstNoData)
        ELSE clipped = NoPixel

C15_Witness ==
    /\ pc = "step4"
    /\ where.window /\ where.bbox /\ ~where.polygon
    /\ modified = Val(12700)
    /\ clipped = Val(DstNoData)

\* C16 as claimed: a pixel that is nodata in the reduced raster is nodata in
\* the clipped raster and has the nodata code in the output.
C16_NoDataPropagates ==
    Converted /\ modified # NoPixel /\ IsNoData(modified) =>
        /\ IsNoData(clipped)
        /\ encoded = Val(NoDataCode)

\* C16 amended: a pixel that is nodata in the reduced raster and lies in the
\* extent of the polygon is nodata in the clipped raster and has the nodata
\* code in the output; one outside that extent is in neither raster. No
\* stage gives such a pixel a valid code.
C16_NoDataPropagatesOrCropped ==
    Converted /\ modified # NoPixel /\ IsNoData(modified) =>
        IF where.bbox
        THEN IsNoData(clipped) /\ encoded = Val(NoDataCode)
        ELSE clipped = NoPixel /\ encoded = NoPixel

C16_Witness ==
    /\ pc = "converted"
    /\ where.polygon
    /\ modified = Val(NoDataValue)
    /\ clipped = Val(NoDataValue)
    /\ encoded = Val(NoDataCode)

\* The shape of a raster, at the pixel followed: whether the raster has the
\* pixel. Every pixel of the cube is followed, so two rasters of the same
\* shape and georeference have the same pixels.
\* C17 as claimed: the reduced raster, the clipped raster and the output have
\* every pixel of the cube.
C17_ShapePreserved ==
    Converted =>
        /\ modified # NoPixel
        /\ clipped # NoPixel
        /\ encoded # NoPixel

\* C17 amended: the reduced raster has the pixels of the cube that lie in the
\* window of LA_BOUNDS (step 1 crops, step 2 keeps the grid); the clipped
\* raster has the pixels of the extent of the polygon (step 3 crops to the
\* cutline); the output has the pixels of the clipped raster (step 4 keeps
\* the grid).
C17_ShapeOfWindowThenCutline ==
    Converted =>
        /\ allbands # << >> <=> where.window
        /\ modified # NoPixel <=> allbands # << >>
        /\ clipped # NoPixel <=> where.bbox
        /\ encoded # NoPixel <=> clipped # NoPixel

C17_Witness ==
    /\ pc = "converted"
    /\ ~where.window /\ where.bbox
    /\ Present(series) # {}
    /\ modified = NoPixel
    /\ encoded = Val(NoDataCode)

====
